---- MODULE Spec2Model ----
(***************************************************************************)
(* Route resolution of app/server.py: a Flask application with seven page  *)
(* routes and a 404 error handler, a Dash chart application created on the *)
(* same Flask object, and a werkzeug DispatcherMiddleware that mounts the  *)
(* chart application's server under /mission3/nutriscore.                  *)
(*                                                                         *)
(* A URL path is the sequence of its segments after the leading slash:     *)
(*   "/" = <<"">>, "/header/" = <<"header", "">>, "/header" = <<"header">>, *)
(*   and the empty PATH_INFO "" = << >>.                                   *)
(* Paths with an empty inner segment ("//") are not among the requests.    *)
(*                                                                         *)
(* The module is modelled as it is meant to run: the import of line 6 and  *)
(* the names Output and Input of the callback registration resolve, and    *)
(* the process is the one __main__ starts (create_app, then run_simple).   *)
(* Routing, error handling, template loading and mounting follow Flask,    *)
(* werkzeug, Jinja and Dash as the module configures them.                 *)
(***************************************************************************)
EXTENDS Integers, Sequences, FiniteSets, TLC

VARIABLES phase, url_map, mounts, fs, cache, req, environ, resp, nFsChanges, nRequests

vars == <<phase, url_map, mounts, fs, cache, req, environ, resp, nFsChanges, nRequests>>

\* Bounds of the model.
MaxFsChanges == 1
MaxRequests == 2
MaxFormLen == 1

-----------------------------------------------------------------------------
(* Files                                                                   *)

\* The templates the view functions and the error handler render, relative
\* to template_folder = static_folder = /var/www/htmx_website/.
TemplateFiles ==
  { "index.html", "templates/header.html", "templates/footer.html",
    "templates/summary.html", "templates/home.html",
    "mission3/mission3.html", "mission3/Mission3.html", "404.html" }

\* The data file create_dash_mission3 reads at start-up.
nutriscore_directory == "data/nutrition_combination_log.csv"

RootFiles == TemplateFiles \cup {nutriscore_directory}

FileStates == {"ok", "missing", "denied"}

\* The segments of a file's path below the root.
FilePath(f) ==
  CASE f = "index.html"              -> <<"index.html">>
    [] f = "404.html"                -> <<"404.html">>
    [] f = "templates/header.html"   -> <<"templates", "header.html">>
    [] f = "templates/footer.html"   -> <<"templates", "footer.html">>
    [] f = "templates/summary.html"  -> <<"templates", "summary.html">>
    [] f = "templates/home.html"     -> <<"templates", "home.html">>
    [] f = "mission3/mission3.html"  -> <<"mission3", "mission3.html">>
    [] f = "mission3/Mission3.html"  -> <<"mission3", "Mission3.html">>
    [] f = nutriscore_directory      -> <<"data", "nutrition_combination_log.csv">>

\* What a rendered template, the raw bytes of a file, and a page generated
\* by the framework itself look like in a response body.
Rendered(f) == <<"rendered", f>>
RawBytes(f) == <<"bytes", f>>
FrameworkPage(what) == <<"werkzeug", what>>
OutsideBytes == <<"bytes", "/etc/passwd">>

NoLocation == <<"(none)">>

-----------------------------------------------------------------------------
(* The route table                                                         *)

GET == "GET"
POST == "POST"
Methods == {GET, POST}

Rule(path, converter, methods, endpoint) ==
  [rule |-> path, converter |-> converter, methods |-> methods, endpoint |-> endpoint]

\* @app.route registrations of the module, as registered (trailing slashes
\* included).
AppRules ==
  { Rule(<<"">>, "none", {GET}, "index"),
    Rule(<<"header", "">>, "none", {GET}, "header"),
    Rule(<<"footer", "">>, "none", {GET}, "footer"),
    Rule(<<"summary", "">>, "none", {GET}, "summary"),
    Rule(<<"load-home", "">>, "none", {GET}, "load_home"),
    Rule(<<"mission3", "">>, "none", {GET}, "mission3"),
    Rule(<<"mission3", "Mission3.html">>, "none", {GET}, "mission3_notebook") }

\* Flask(static_folder="/var/www/htmx_website/") registers
\* /htmx_website/<path:filename> for the static files.
StaticRule == Rule(<<"htmx_website">>, "path", {GET}, "static")

\* The URL prefix of the chart application and the mount point.
url_base_pathname == <<"mission3", "nutriscore", "">>
MountPrefix == <<"mission3", "nutriscore">>

\* Dash(server=flask_app, url_base_pathname=...) registers the chart
\* application's routes on the Flask object it is given: its index, its
\* catch-all and its callback endpoint.
DashRules ==
  { Rule(url_base_pathname, "none", {GET}, "dash"),
    Rule(MountPrefix, "path", {GET}, "dash"),
    Rule(MountPrefix \o <<"_dash-update-component">>, "none", {POST}, "dash") }

\* TemplateOf with the two mission3 templates, which differ in the case of
\* one letter, taken for each other.
TemplateOf_CaseSlip(endpoint) ==
  CASE endpoint = "index"             -> "index.html"
    [] endpoint = "header"            -> "templates/header.html"
    [] endpoint = "footer"            -> "templates/footer.html"
    [] endpoint = "summary"           -> "templates/summary.html"
    [] endpoint = "load_home"         -> "templates/home.html"
    [] endpoint = "mission3"          -> "mission3/Mission3.html"
    [] endpoint = "mission3_notebook" -> "mission3/mission3.html"

\* The template each view function renders.
TemplateOf(endpoint) ==
  CASE endpoint = "index"             -> "index.html"
    [] endpoint = "header"            -> "templates/header.html"
    [] endpoint = "footer"            -> "templates/footer.html"
    [] endpoint = "summary"           -> "templates/summary.html"
    [] endpoint = "load_home"         -> "templates/home.html"
    [] endpoint = "mission3"          -> "mission3/mission3.html"
    [] endpoint = "mission3_notebook" -> "mission3/Mission3.html"

PageEndpoints ==
  {"index", "header", "footer", "summary", "load_home", "mission3", "mission3_notebook"}

-----------------------------------------------------------------------------
(* werkzeug routing: MapAdapter.match over the route table                 *)

\* A rule without converter matches its own path only; a rule ending in a
\* <path:...> converter matches its prefix followed by a non-empty rest
\* that does not start with a slash.
RuleMatches(r, p) ==
  IF r.converter = "path"
  THEN /\ Len(p) > Len(r.rule)
       /\ SubSeq(p, 1, Len(r.rule)) = r.rule
       /\ p[Len(r.rule) + 1] # ""
  ELSE p = r.rule

\* The rest of the path a <path:...> converter captures.
Captured(r, p) ==
  IF r.converter = "path" THEN SubSeq(p, Len(r.rule) + 1, Len(p)) ELSE << >>

\* strict_slashes: the rules that would match the path with a slash added.
SlashRules(map, p, method) ==
  { r \in map : r.converter = "none" /\ r.rule = Append(p, "") /\ method \in r.methods }

\* The outcome of matching: the rule and its arguments, a redirect to the
\* slash-terminated path (RequestRedirect), MethodNotAllowed or NotFound.
Match(map, p, method) ==
  LET candidates == { r \in map : RuleMatches(r, p) }
      allowed    == { r \in candidates : method \in r.methods }
      exact      == { r \in allowed : r.converter = "none" }
      chosen     == IF exact # {} THEN CHOOSE r \in exact : TRUE
                    ELSE CHOOSE r \in allowed : TRUE
  IN  IF allowed # {}
      THEN [kind |-> "rule", endpoint |-> chosen.endpoint, args |-> Captured(chosen, p)]
      ELSE IF SlashRules(map, p, method) # {}
      THEN [kind |-> "RequestRedirect", endpoint |-> "", args |-> Append(p, "")]
      ELSE IF candidates # {}
      THEN [kind |-> "MethodNotAllowed", endpoint |-> "", args |-> << >>]
      ELSE [kind |-> "NotFound", endpoint |-> "", args |-> << >>]

-----------------------------------------------------------------------------
(* werkzeug DispatcherMiddleware.__call__                                  *)

\* The mount the request goes to: the longest prefix of the path that is a
\* mount point becomes SCRIPT_NAME, the rest PATH_INFO; without one the
\* request goes to the wrapped application with its path unchanged.
DispatcherMiddleware(mnts, r) ==
  LET hits == { k \in 1..Len(r.path) : SubSeq(r.path, 1, k) \in mnts }
      k    == CHOOSE i \in hits : \A j \in hits : j <= i
  IN  IF hits # {}
      THEN [app |-> "dash_mission3.server", method |-> r.method,
            script_name |-> SubSeq(r.path, 1, k),
            path_info |-> SubSeq(r.path, k + 1, Len(r.path)), form |-> r.form]
      ELSE [app |-> "flask_app.wsgi_app", method |-> r.method,
            script_name |-> << >>, path_info |-> r.path, form |-> r.form]

-----------------------------------------------------------------------------
(* Flask: templates, views, error handling                                 *)

Response(status, body, handler, location) ==
  [status |-> status, body |-> body, handler |-> handler, location |-> location]

\* A template renders when the Jinja environment has it loaded already
\* (templates are loaded once and kept: auto_reload is off outside debug
\* mode) or when its file can be read now.
Renderable(f, files, loaded) == f \in loaded \/ files[f] = "ok"

\* render_template(f): the body, or the exception of the failed load.
render_template(f, files, loaded) ==
  IF Renderable(f, files, loaded)
  THEN [raised |-> "", resp |-> Response(200, Rendered(f), "", NoLocation),
        cache |-> loaded \cup {f}]
  ELSE [raised |-> "Exception", resp |-> Response(500, << >>, "", NoLocation),
        cache |-> loaded]

\* posixpath.normpath of a relative path.
RECURSIVE Normpath(_, _)
Normpath(segs, acc) ==
  IF segs = << >> THEN acc
  ELSE LET s == Head(segs) IN
       IF s = "" \/ s = "." THEN Normpath(Tail(segs), acc)
       ELSE IF s = ".." /\ acc # << >> /\ acc[Len(acc)] # ".."
       THEN Normpath(Tail(segs), SubSeq(acc, 1, Len(acc) - 1))
       ELSE Normpath(Tail(segs), Append(acc, s))

\* werkzeug safe_join: the normalised path, refused when it leaves the
\* directory.
safe_join(filename) ==
  LET n == Normpath(filename, << >>)
  IN  IF n # << >> /\ n[1] = ".." THEN [ok |-> FALSE, path |-> << >>]
      ELSE [ok |-> TRUE, path |-> n]

\* send_from_directory(static_folder, filename) of the static route.
send_static_file(filename, files, loaded) ==
  LET j     == safe_join(filename)
      found == { f \in RootFiles : FilePath(f) = j.path }
      f     == CHOOSE x \in found : TRUE
  IN  IF ~j.ok \/ found = {} \/ files[f] = "missing"
      THEN [raised |-> "NotFound", resp |-> Response(404, << >>, "", NoLocation),
            cache |-> loaded]
      ELSE IF files[f] = "denied"
      THEN [raised |-> "Exception", resp |-> Response(500, << >>, "", NoLocation),
            cache |-> loaded]
      ELSE [raised |-> "", resp |-> Response(200, RawBytes(f), "static", NoLocation),
            cache |-> loaded]

\* The page views: index, header, footer, summary, load_home, mission3 and
\* mission3_notebook each return render_template of their template.
PageView(endpoint, files, loaded) ==
  LET r == render_template(TemplateOf(endpoint), files, loaded)
  IN  [r EXCEPT !.resp.handler = IF r.raised = "" THEN endpoint ELSE ""]

\* The chart application answers with a response of its own making.
DashStatuses == {200, 500}
DashView(reply, loaded) ==
  [raised |-> "", resp |-> Response(reply, <<"dash">>, "dash", NoLocation),
   cache |-> loaded]

\* @app.errorhandler(404): return render_template('404.html'), 404
not_found(files, loaded) ==
  LET r == render_template("404.html", files, loaded)
  IN  IF r.raised = ""
      THEN [r EXCEPT !.resp.status = 404, !.resp.handler = "not_found"]
      ELSE r

\* The response to an exception no handler is registered for.
InternalServerError(loaded) ==
  [resp |-> Response(500, FrameworkPage("500 Internal Server Error"), "werkzeug",
                     NoLocation),
   cache |-> loaded]

-----------------------------------------------------------------------------
(* Routes of the site's other route table: the scroll payloads and the     *)
(* feedback form                                                           *)

Chars == {"A", "<"}
Strings == UNION { [1..n -> Chars] : n \in 0..MaxFormLen }
Absent == <<"(absent)">>
FormValues == Strings \cup {Absent}
Forms == [name : FormValues, feedback : FormValues]
NoForm == [name |-> Absent, feedback |-> Absent]

ScrollStep == 320

VariantRules ==
  { Rule(<<"scroll-left">>, "none", {GET}, "scroll_left"),
    Rule(<<"scroll-right">>, "none", {GET}, "scroll_right"),
    Rule(<<"submit-feedback">>, "none", {POST}, "submit_feedback") }

\* The structured payload {scroll_distance: n}.
ScrollPayload(n) == <<"scroll_distance", n>>

\* scroll_left with the sign of the distance lost.
scroll_left_SignSlip(loaded) ==
  [raised |-> "", resp |-> Response(200, ScrollPayload(ScrollStep), "scroll_left", NoLocation),
   cache |-> loaded]

scroll_left(loaded) ==
  [raised |-> "", resp |-> Response(200, ScrollPayload(0 - ScrollStep), "scroll_left", NoLocation),
   cache |-> loaded]

scroll_right(loaded) ==
  [raised |-> "", resp |-> Response(200, ScrollPayload(ScrollStep), "scroll_right", NoLocation),
   cache |-> loaded]

\* HTML escaping of a string, character by character.
RECURSIVE Escape(_)
Escape(s) ==
  IF s = << >> THEN << >>
  ELSE (IF Head(s) = "<" THEN <<"&", "l", "t", ";">> ELSE <<Head(s)>>) \o Escape(Tail(s))

\* The acknowledgement sentence around the two substituted values.
Acknowledgement(name, feedback) ==
  <<"Thank you, ">> \o name \o <<"! Your feedback: ">> \o feedback

\* A form field, the empty string when it is absent.
FormGet(form, field) == IF form[field] = Absent THEN << >> ELSE form[field]

\* The feedback view as the site has it: both values interpolated as they
\* were sent.
submit_feedback(form, loaded) ==
  [raised |-> "",
   resp |-> Response(200, Acknowledgement(FormGet(form, "name"), FormGet(form, "feedback")),
                     "submit_feedback", NoLocation),
   cache |-> loaded]

-----------------------------------------------------------------------------
(* Flask.wsgi_app: one request through routing, view and error handling    *)

\* The view function of a matched rule.
View(m, env, files, loaded, reply) ==
  CASE m.endpoint \in PageEndpoints      -> PageView(m.endpoint, files, loaded)
    [] m.endpoint = "static"             -> send_static_file(m.args, files, loaded)
    [] m.endpoint = "dash"               -> DashView(reply, loaded)
    [] m.endpoint = "scroll_left"        -> scroll_left(loaded)
    [] m.endpoint = "scroll_right"       -> scroll_right(loaded)
    [] m.endpoint = "submit_feedback"    -> submit_feedback(env.form, loaded)

\* NotFound goes to the registered 404 handler, and an exception raised in
\* it, like any other exception, becomes the framework's 500 page; a
\* redirect and MethodNotAllowed have no handler and are answered by the
\* framework.
wsgi_app(map, env, files, loaded, reply) ==
  LET m == Match(map, env.path_info, env.method)
      v == IF m.kind = "rule" THEN View(m, env, files, loaded, reply)
           ELSE [raised |-> m.kind, resp |-> Response(0, << >>, "", NoLocation),
                 cache |-> loaded]
      nf == not_found(files, loaded)
  IN  CASE v.raised = "" -> [resp |-> v.resp, cache |-> v.cache]
        [] v.raised = "RequestRedirect" ->
             [resp |-> Response(308, FrameworkPage("Redirecting"), "werkzeug",
                                env.script_name \o m.args),
              cache |-> loaded]
        [] v.raised = "MethodNotAllowed" ->
             [resp |-> Response(405, FrameworkPage("405 Method Not Allowed"), "werkzeug",
                                NoLocation),
              cache |-> loaded]
        [] v.raised = "NotFound" ->
             IF nf.raised = "" THEN [resp |-> nf.resp, cache |-> nf.cache]
             ELSE InternalServerError(loaded)
        [] v.raised = "Exception" -> InternalServerError(loaded)

-----------------------------------------------------------------------------
(* State machine                                                           *)

NoRequest == [method |-> "", path |-> << >>, form |-> NoForm]
NoEnviron ==
  [app |-> "", method |-> "", script_name |-> << >>, path_info |-> << >>, form |-> NoForm]
NoResponse == Response(0, << >>, "", NoLocation)

\* The request paths of the model: the registered patterns, their forms
\* without and with a trailing slash, paths no rule has, paths at and below
\* the mount point, and paths with ".." segments.
Paths ==
  { <<"">>, <<"header", "">>, <<"footer", "">>, <<"summary", "">>, <<"load-home", "">>,
    <<"mission3", "">>, <<"mission3", "Mission3.html">>,
    <<"header">>, <<"footer">>, <<"summary">>, <<"load-home">>, <<"mission3">>,
    <<"mission3", "Mission3.html", "">>,
    <<"nope">>, <<"mission3", "nutriscorefoo">>,
    <<"mission3", "nutriscore">>, <<"mission3", "nutriscore", "">>,
    <<"mission3", "nutriscore", "nope">>,
    <<"mission3", "nutriscore", "_dash-update-component">>,
    <<"mission3", "nutriscore", "mission3", "nutriscore", "">>,
    <<"mission3", "nutriscore", "mission3", "nutriscore", "_dash-update-component">>,
    <<"mission3", "nutriscore", "mission3", "nutriscore", "..", "..", "etc", "passwd">>,
    <<"..", "etc", "passwd">>,
    <<"htmx_website", "index.html">>,
    <<"htmx_website", "templates", "..", "index.html">>,
    <<"htmx_website", "..", "..", "etc", "passwd">> }

\* The paths requested with POST.
PostPaths ==
  { <<"header", "">>, <<"nope">>, <<"mission3", "nutriscore", "">>,
    <<"mission3", "nutriscore", "_dash-update-component">>,
    <<"mission3", "nutriscore", "mission3", "nutriscore", "_dash-update-component">>,
    <<"htmx_website", "..", "..", "etc", "passwd">> }

PathsOf(method) == IF method = POST THEN PostPaths ELSE Paths

VariantPaths ==
  { <<"scroll-left">>, <<"scroll-right">>, <<"submit-feedback">>, <<"header", "">>, <<"nope">> }

\* The form a request of the main route table carries.
SampleForm == [name |-> <<"A">>, feedback |-> <<"<">>]
FormsOf(method) == IF method = POST THEN {SampleForm} ELSE {NoForm}

\* After the module is imported: the page rules and the static rule are
\* registered, nothing is mounted, no template is loaded.
Init ==
  /\ phase = "imported"
  /\ url_map = AppRules \cup {StaticRule}
  /\ mounts = {}
  /\ \E s \in FileStates :
       fs = [f \in RootFiles |-> IF f = nutriscore_directory THEN s ELSE "ok"]
  /\ cache = {}
  /\ req = NoRequest
  /\ environ = NoEnviron
  /\ resp = NoResponse
  /\ nFsChanges = 0
  /\ nRequests = 0

\* create_app() and run_simple(): read the data file, create the chart
\* application on the Flask object, mount its server and start serving.  A
\* failed read ends the process before it serves.
create_app ==
  /\ phase = "imported"
  /\ IF fs[nutriscore_directory] = "ok"
     THEN /\ url_map' = url_map \cup DashRules
          /\ mounts' = {MountPrefix}
          /\ phase' = "serving"
     ELSE /\ phase' = "crashed"
          /\ UNCHANGED <<url_map, mounts>>
  /\ UNCHANGED <<fs, cache, req, environ, resp, nFsChanges, nRequests>>

\* One request through the dispatcher and the Flask application.
Serve(method, path, form, reply) ==
  LET r   == [method |-> method, path |-> path, form |-> form]
      env == DispatcherMiddleware(mounts, r)
      out == wsgi_app(url_map, env, fs, cache, reply)
  IN  /\ phase = "serving"
      /\ nRequests < MaxRequests
      /\ req' = r
      /\ environ' = env
      /\ resp' = out.resp
      /\ cache' = out.cache
      /\ nRequests' = nRequests + 1
      /\ UNCHANGED <<phase, url_map, mounts, fs, nFsChanges>>

\* The chart application's reply matters only to a request that reaches it.
RepliesFor(method, path) ==
  LET env == DispatcherMiddleware(mounts, [method |-> method, path |-> path, form |-> NoForm])
      m   == Match(url_map, env.path_info, method)
  IN  IF m.kind = "rule" /\ m.endpoint = "dash" THEN DashStatuses ELSE {200}

Request ==
  \E method \in Methods :
    \E path \in PathsOf(method), form \in FormsOf(method) :
      \E reply \in RepliesFor(method, path) : Serve(method, path, form, reply)

\* The environment removes a template file, takes its read permission away
\* or puts it back, between two requests.
FsChange ==
  /\ phase = "serving"
  /\ nFsChanges < MaxFsChanges
  /\ nRequests < MaxRequests
  /\ \E f \in TemplateFiles, s \in FileStates :
       /\ s # fs[f]
       /\ fs' = [fs EXCEPT ![f] = s]
  /\ nFsChanges' = nFsChanges + 1
  /\ req' = NoRequest
  /\ environ' = NoEnviron
  /\ resp' = NoResponse
  /\ UNCHANGED <<phase, url_map, mounts, cache, nRequests>>

Next == create_app \/ Request \/ FsChange

Spec == Init /\ [][Next]_vars

\* The other route table of the site: the page rules together with the
\* scroll and feedback rules, nothing mounted.
InitVariant ==
  /\ phase = "serving"
  /\ url_map = AppRules \cup {StaticRule} \cup VariantRules
  /\ mounts = {}
  /\ fs = [f \in RootFiles |-> "ok"]
  /\ cache = {}
  /\ req = NoRequest
  /\ environ = NoEnviron
  /\ resp = NoResponse
  /\ nFsChanges = 0
  /\ nRequests = 0

VariantRequest ==
  \E method \in Methods, path \in VariantPaths :
    \E form \in (IF method = POST THEN Forms ELSE {NoForm}) :
      Serve(method, path, form, 200)

NextVariant == VariantRequest

SpecVariant == InitVariant /\ [][NextVariant]_vars

-----------------------------------------------------------------------------
(* Properties                                                              *)

Served == req # NoRequest

\* The path is the mount point or lies below it.
UnderMount(p) == Len(p) >= Len(MountPrefix) /\ SubSeq(p, 1, Len(MountPrefix)) = MountPrefix

\* The response is the 404 response: status 404 and the rendering of 404.html.
IsNotFoundPage(r) == r.status = 404 /\ r.body = Rendered("404.html")

\* The route table has a rule for the path, as sent or with a slash added,
\* under one of the methods.
HasRoute(p, methods) ==
  \E r \in url_map :
    /\ r.methods \cap methods # {}
    /\ RuleMatches(r, p) \/ (r.converter = "none" /\ r.rule = Append(p, ""))

HasDotDot(p) == \E i \in 1..Len(p) : p[i] = ".."

\* C1: every GET whose path matches no registered route and is not under
\* the mount prefix is answered with status 404 and the not-found page.
C1_UnknownGetIsNotFoundPage ==
  (Served /\ req.method = GET /\ ~UnderMount(req.path) /\ ~HasRoute(req.path, Methods))
    => IsNotFoundPage(resp)

\* The routes of the pages as the route table of the specification lists
\* them, and the template behind each.
ListedPagePaths ==
  { <<"">>, <<"header">>, <<"footer">>, <<"summary">>, <<"load-home">>, <<"mission3">>,
    <<"mission3", "Mission3.html">> }

RegisteredPagePaths ==
  { <<"">>, <<"header", "">>, <<"footer", "">>, <<"summary", "">>, <<"load-home", "">>,
    <<"mission3", "">>, <<"mission3", "Mission3.html">> }

PageFile(p) ==
  CASE p[1] = ""                          -> "index.html"
    [] p[1] = "header"                    -> "templates/header.html"
    [] p[1] = "footer"                    -> "templates/footer.html"
    [] p[1] = "summary"                   -> "templates/summary.html"
    [] p[1] = "load-home"                 -> "templates/home.html"
    [] p[1] = "mission3" /\ Len(p) = 1    -> "mission3/mission3.html"
    [] p[1] = "mission3" /\ p[2] = ""     -> "mission3/mission3.html"
    [] p[1] = "mission3" /\ p[2] # ""     -> "mission3/Mission3.html"

\* C2 as stated: a GET on /, /header, /footer, /summary, /load-home,
\* /mission3 or /mission3/Mission3.html returns status 200 and a body of
\* length > 0.
C2_ListedRoutesReturn200 ==
  (Served /\ req.method = GET /\ req.path \in ListedPagePaths)
    => (resp.status = 200 /\ Len(resp.body) > 0)

\* C2 amended: a GET on a page route as registered (/, /header/, /footer/,
\* /summary/, /load-home/, /mission3/, /mission3/Mission3.html) whose
\* template file is readable returns status 200 and the rendering of that
\* template, of length > 0; a GET on the slash-less form of a route
\* registered with a trailing slash returns a redirect to the registered
\* path, not 200.
C2_RegisteredRoutesReturn200 ==
  /\ (Served /\ req.method = GET /\ req.path \in RegisteredPagePaths
        /\ fs[PageFile(req.path)] = "ok")
       => (resp.status = 200 /\ resp.body = Rendered(PageFile(req.path))
           /\ Len(resp.body) > 0)
  /\ (Served /\ req.method = GET /\ req.path \in ListedPagePaths \ RegisteredPagePaths)
       => (resp.status = 308 /\ resp.location = Append(req.path, ""))

C2_Witness ==
  /\ Served /\ req.method = GET /\ req.path = <<"mission3", "">>
  /\ fs["mission3/mission3.html"] = "ok"
  /\ resp.status = 200 /\ resp.handler = "mission3"

\* C3: when the template behind a matched page route cannot be read, the
\* response is the 404 response with the not-found body, whichever of
\* missing and permission denied it is, 404.html included.
C3_UnreadableFileIsNotFoundPage ==
  (Served /\ req.method = GET /\ req.path \in RegisteredPagePaths
     /\ fs[PageFile(req.path)] # "ok")
    => IsNotFoundPage(resp)

\* C4: a (method, path) no route matches is answered with status 404 and
\* the not-found page; a POST to a path registered for GET alone is one.
C4_UnmatchedMethodIsNotFoundPage ==
  (Served /\ ~UnderMount(req.path) /\ ~HasRoute(req.path, {req.method}))
    => IsNotFoundPage(resp)

\* C5: a request under /mission3/nutriscore is handed to the chart
\* application with method, path and body as sent and is answered by the
\* chart application (or redirected by its server to the slash-terminated
\* path), never by a page view or the 404 handler of the router; a request
\* elsewhere is never handed to it.
C5_MountIsAnsweredByChartApp ==
  Served =>
    IF UnderMount(req.path)
    THEN /\ environ.app = "dash_mission3.server"
         /\ environ.method = req.method
         /\ environ.form = req.form
         /\ environ.script_name \o environ.path_info = req.path
         /\ resp.handler = "dash" \/ resp.status = 308
    ELSE environ.app # "dash_mission3.server"

\* C6: a request whose path has a ".." segment is answered with the 404
\* response, and no response carries a file from outside the root.
C6_DotDotIsNotFoundPage ==
  /\ resp.body # OutsideBytes
  /\ (Served /\ HasDotDot(req.path)) => IsNotFoundPage(resp)

\* C7: GET /scroll-left returns status 200 and the payload with
\* scroll_distance -320, GET /scroll-right status 200 and scroll_distance 320.
C7_ScrollPayloads ==
  /\ (Served /\ req.method = GET /\ req.path = <<"scroll-left">>)
       => (resp.status = 200 /\ resp.body = <<"scroll_distance", -320>>)
  /\ (Served /\ req.method = GET /\ req.path = <<"scroll-right">>)
       => (resp.status = 200 /\ resp.body = <<"scroll_distance", 320>>)

C7_Witness ==
  /\ Served /\ req.method = GET /\ req.path = <<"scroll-left">>
  /\ resp.handler = "scroll_left" /\ resp.status = 200

\* C8: POST /submit-feedback returns status 200 and the acknowledgement
\* with both form values HTML-escaped: markup in a value is never
\* reproduced as sent, a value without markup appears as sent.
C8_FeedbackIsEscaped ==
  (Served /\ req.method = POST /\ req.path = <<"submit-feedback">>)
    => /\ resp.status = 200
       /\ resp.body = Acknowledgement(Escape(FormGet(req.form, "name")),
                                      Escape(FormGet(req.form, "feedback")))

\* C9: while serving the route table stays as it was at start-up, and a
\* request gets the response a process that has served nothing before
\* gives to it over the same files.
C9_ResolutionIsPure ==
  phase = "serving" =>
    /\ url_map = AppRules \cup {StaticRule} \cup DashRules
    /\ (Served /\ resp.handler # "dash")
         => resp = wsgi_app(url_map, environ, fs, {}, 200).resp

\* C10: a GET on /header, /footer, /summary, /load-home or /mission3 is
\* answered with a redirect to the slash-terminated path, and a GET on
\* /mission3/Mission3.html/ with the 404 response.
C10_TrailingSlashIsExact ==
  /\ (Served /\ req.method = GET /\ req.path \in ListedPagePaths \ RegisteredPagePaths)
       => (resp.status = 308 /\ resp.location = Append(req.path, ""))
  /\ (Served /\ req.method = GET /\ req.path = <<"mission3", "Mission3.html", "">>)
       => IsNotFoundPage(resp)

\* The routing outcomes behind C10, whatever the state of 404.html: the
\* slash-less forms are redirected, and /mission3/Mission3.html/ reaches no
\* view but the 404 handler, whose response is the not-found page unless
\* 404.html cannot be rendered.
TrailingSlashRouting ==
  /\ (Served /\ req.method = GET /\ req.path \in ListedPagePaths \ RegisteredPagePaths)
       => (resp.status = 308 /\ resp.location = Append(req.path, ""))
  /\ (Served /\ req.method = GET /\ req.path = <<"mission3", "Mission3.html", "">>)
       => \/ IsNotFoundPage(resp) /\ resp.handler = "not_found"
          \/ resp.status = 500 /\ fs["404.html"] # "ok"

====
